---------------------------- MODULE Spec2Model ----------------------------
(***************************************************************************)
(* A model of the keyframe scheduling code of giffusion:                   *)
(*   src/flows/flow_byop.py       BYOPFlow                                 *)
(*   src/flows/flow_giffusion.py  GiffusionFlow                            *)
(*   src/generate.py              the stand-alone script                   *)
(*                                                                         *)
(* Numbers that Python holds as floats are held here as exact fractions    *)
(* <<n, d>> with d > 0; <<0, 0>> is NaN, the value of 0/0 in numpy.        *)
(* Tensors are held symbolically: a latent is named by the generator state *)
(* it was drawn from, an embedding by its prompt, an interpolated tensor   *)
(* by the fraction and the two endpoints handed to slerp.                  *)
(***************************************************************************)
EXTENDS Integers, Sequences, FiniteSets, TLC

(***************************************************************************)
(* Bounds of the model.                                                    *)
(***************************************************************************)
MaxFrame == 3          \* keyframes sit on frame indices 0 .. MaxFrame
MaxAudio == 6          \* audio arrays have up to MaxAudio samples, each 0 or 1
Fps == 1               \* frames per second of the animation
SampleRate == 2        \* audio samples per second
MaxBatch == 2          \* batch_size ranges over 1 .. MaxBatch

None == "None"         \* Python's None
NaN == <<0, 0>>        \* numpy's nan

Frames == 0 .. MaxFrame

Max2(a, b) == IF a >= b THEN a ELSE b
Min2(a, b) == IF a <= b THEN a ELSE b

Range(s) == {s[i] : i \in DOMAIN s}

(***************************************************************************)
(* Exact fractions.                                                        *)
(***************************************************************************)
RECURSIVE Gcd(_, _)
Gcd(a, b) == IF b = 0 THEN a ELSE Gcd(b, a % b)

Abs(x) == IF x < 0 THEN -x ELSE x

IsNaN(q) == q[2] = 0

\* the fraction n/d in lowest terms, d > 0; anything over zero is NaN here
\* (the code only ever divides zero by zero, see CumsumNormalised)
Frac(n, d) ==
    IF d = 0 THEN NaN
    ELSE LET g == Gcd(Abs(n), Abs(d))
             s == IF d < 0 THEN -1 ELSE 1
         IN  <<(s * n) \div g, (s * d) \div g>>

FracInt(n) == <<n, 1>>

FracAdd(p, q) ==
    IF IsNaN(p) \/ IsNaN(q) THEN NaN ELSE Frac(p[1] * q[2] + q[1] * p[2], p[2] * q[2])
FracSub(p, q) ==
    IF IsNaN(p) \/ IsNaN(q) THEN NaN ELSE Frac(p[1] * q[2] - q[1] * p[2], p[2] * q[2])
FracMul(p, q) ==
    IF IsNaN(p) \/ IsNaN(q) THEN NaN ELSE Frac(p[1] * q[1], p[2] * q[2])
FracDiv(p, q) ==
    IF IsNaN(p) \/ IsNaN(q) THEN NaN ELSE Frac(p[1] * q[2], p[2] * q[1])

\* IEEE comparisons: every comparison with NaN is false
FracLE(p, q) == ~IsNaN(p) /\ ~IsNaN(q) /\ p[1] * q[2] <= q[1] * p[2]
FracLT(p, q) == ~IsNaN(p) /\ ~IsNaN(q) /\ p[1] * q[2] < q[1] * p[2]
FracEq(p, q) == ~IsNaN(p) /\ ~IsNaN(q) /\ p[1] * q[2] = q[1] * p[2]

(***************************************************************************)
(* numpy                                                                   *)
(***************************************************************************)
\* np.linspace(0, stop, num): num evenly spaced points, both ends included;
\* one point gives [0], no point gives []
Linspace(stop, num) ==
    [i \in 1 .. num |-> IF num = 1 THEN FracInt(0) ELSE Frac((i - 1) * stop, num - 1)]

\* np.cumsum
RECURSIVE CumSum(_)
CumSum(s) ==
    IF Len(s) = 0 THEN <<>>
    ELSE IF Len(s) = 1 THEN s
    ELSE LET front == CumSum(SubSeq(s, 1, Len(s) - 1))
         IN  Append(front, FracAdd(front[Len(front)], s[Len(s)]))

\* np.interp(x, xp, fp) for one x: clamped to fp's ends outside xp, linear between
\* the two neighbours inside
Interp1(x, xp, fp) ==
    LET n == Len(xp)
    IN  IF \E k \in 1 .. n : IsNaN(fp[k]) THEN NaN
        ELSE IF FracLE(x, xp[1]) THEN fp[1]
        ELSE IF FracLE(xp[n], x) THEN fp[n]
        ELSE LET k == CHOOSE j \in 1 .. n - 1 : FracLE(xp[j], x) /\ FracLT(x, xp[j + 1])
                 slope == FracDiv(FracSub(fp[k + 1], fp[k]), FracSub(xp[k + 1], xp[k]))
             IN  FracAdd(fp[k], FracMul(slope, FracSub(x, xp[k])))

Interp(xs, xp, fp) == [i \in DOMAIN xs |-> Interp1(xs[i], xp, fp)]


(***************************************************************************)
(* librosa, as far as the code relies on it.  The onset envelope of a      *)
(* slice has one value per hop (a hop is one sample here), none negative:  *)
(* the positive part of the rise from one hop to the next.  librosa pads   *)
(* the envelope on the left to make up for the lag, so its first value is  *)
(* zero.  An empty slice makes librosa raise.                              *)
(***************************************************************************)
OnsetStrength(audio_slice) ==
    [k \in 1 .. Len(audio_slice) |->
        IF k = 1 THEN 0 ELSE Max2(0, audio_slice[k] - audio_slice[k - 1])]

RECURSIVE SeqMax(_)
SeqMax(s) == IF Len(s) = 0 THEN 0 ELSE Max2(Abs(s[1]), SeqMax(Tail(s)))

\* librosa.util.normalize: divide by the largest magnitude; an all-zero
\* envelope is left as it is
Normalize(env) ==
    LET m == SeqMax(env)
    IN  [k \in DOMAIN env |-> IF m = 0 THEN FracInt(0) ELSE Frac(env[k], m)]

\* audio_array[start_sample:end_sample], with Python's clamping of both ends
Slice(arr, lo, hi) == SubSeq(arr, Min2(lo, Len(arr)) + 1, Min2(hi, Len(arr)))

\* int((frame / fps) * sr)
SampleOf(frame, fps, sr) == (frame * sr) \div fps

Ok(v) == [err |-> None, val |-> v]
Raise(e) == [err |-> e, val |-> <<>>]

\* schedule_y = np.cumsum(onset_env); schedule_y /= schedule_y[-1]
CumsumNormalised(onset_env) ==
    LET y == CumSum(onset_env)
    IN  [k \in DOMAIN y |-> FracDiv(y[k], y[Len(y)])]

\* BYOPFlow.get_interpolation_schedule_from_audio
get_interpolation_schedule_from_audio(start_frame, end_frame, fps, audio_array, sr) ==
    LET num_frames == (end_frame - start_frame) + 1
        start_sample == SampleOf(start_frame, fps, sr)
        end_sample == SampleOf(end_frame, fps, sr)
        audio_slice == Slice(audio_array, start_sample, end_sample)
        onset_env == Normalize(OnsetStrength(audio_slice))
        schedule_x == Linspace(Len(onset_env), Len(onset_env))
        schedule_y == CumsumNormalised(onset_env)
        resized_schedule == Linspace(Len(schedule_y), num_frames)
    IN  IF Len(audio_slice) = 0 THEN Raise("OnsetError")
        ELSE Ok(Interp(resized_schedule, schedule_x, schedule_y))

\* self.audio_array is None, or the one-element tuple holding the loaded samples
NoAudio == <<>>

\* BYOPFlow.get_interpolation_schedule
get_interpolation_schedule(start_frame, end_frame, fps, audio_array, sr) ==
    IF audio_array # NoAudio
    THEN get_interpolation_schedule_from_audio(start_frame, end_frame, fps, audio_array[1], sr)
    ELSE Ok(Linspace(1, (end_frame - start_frame) + 1))

(***************************************************************************)
(* Audio arrays: the samples are 0 or 1.                                   *)
(***************************************************************************)
RECURSIVE SeqsUpTo(_, _)
SeqsUpTo(S, n) ==
    IF n = 0 THEN {<<>>}
    ELSE LET shorter == SeqsUpTo(S, n - 1)
         IN  shorter \cup {Append(s, x) : s \in {t \in shorter : Len(t) = n - 1}, x \in S}

AudioArrays == {<<a>> : a \in SeqsUpTo({0, 1}, MaxAudio)}

(***************************************************************************)
(* Keyframes, prompts, tensors and random generators.                      *)
(***************************************************************************)
\* the prompt of the keyframe on frame f; every other one is a multi-prompt
\* "x | y", which the encoder turns into an embedding of two rows
Prompt(f) == [id |-> f, parts |-> 1 + (f % 2)]

\* np.nan, the filler of the prompt series
NaNPrompt == [id |-> -1, parts |-> 0]

\* utils.parse_key_frames / utils.sync_prompts_to_video: the keyframes of a
\* prompt specification, sorted by frame index, no index twice, at least one
RECURSIVE SortedSeq(_)
SortedSeq(S) ==
    IF S = {} THEN <<>>
    ELSE LET m == CHOOSE x \in S : \A y \in S : x <= y
         IN  <<m>> \o SortedSeq(S \ {m})

KeyFrameSeqs ==
    {[i \in 1 .. Cardinality(S) |-> <<SortedSeq(S)[i], Prompt(SortedSeq(S)[i])>>] :
        S \in (SUBSET Frames) \ {{}}}

MaxOf(S) == CHOOSE x \in S : \A y \in S : y <= x

\* max(key_frames, key=lambda x: x[0])[0]
LastFrame(key_frames) == MaxOf({key_frames[i][1] : i \in DOMAIN key_frames})

\* a random generator is <<seed, draws made since it was seeded>>
ManualSeed(generator, seed) == <<seed, 0>>
Advance(generator) == <<generator[1], generator[2] + 1>>

\* torch.Generator(device): a new generator, in torch's default state
NewGenerator == <<-1, 0>>

\* torch.randn(shape, generator=g): the tensor is a function of g's state
Randn(generator) == [gen |-> generator]

\* random.randint(0, 2**64 - 1): the value is a function of the state of the
\* random module, no two states giving the same value
RandInt(state) == 1000 * (state[1] + 1) + state[2]

\* random.seed(seed)
RandomSeed(seed) == <<seed, 0>>

\* [random.randint(...) for i in range(n)] from state st: the values drawn
RandInts(st, n) == [i \in 1 .. n |-> RandInt(<<st[1], st[2] + i - 1>>)]

\* self.prompt_to_embedding(prompt)
prompt_to_embedding(prompt) == [prompt |-> prompt.id, rows |-> prompt.parts]

\* the rows a tensor has along its first dimension
RECURSIVE RowsOf(_)
RowsOf(t) ==
    IF "rows" \in DOMAIN t THEN t.rows
    ELSE IF "v0" \in DOMAIN t THEN RowsOf(t.v0)
    ELSE 1

\* utils.slerp(t, v0, v1): for two tensors of one shape, the start tensor at
\* t = 0, the end tensor at t = 1, and in between a tensor that is a function of
\* t and the two; a NaN fraction, or operands of two shapes, give neither
\* endpoint
slerp(t, v0, v1) ==
    IF RowsOf(v0) = RowsOf(v1) /\ FracEq(t, FracInt(0)) THEN v0
    ELSE IF RowsOf(v0) = RowsOf(v1) /\ FracEq(t, FracInt(1)) THEN v1
    ELSE [t |-> t, v0 |-> v0, v1 |-> v1]

\* a dict, written key by key: a function on the keys written so far
Put(dict, key, value) ==
    [k \in DOMAIN dict \cup {key} |-> IF k = key THEN value ELSE dict[k]]

EmptyDict == [k \in {} |-> 0]

\* the loop with its index counted from one, enumerate(interp_schedule, 1): every
\* entry lands one frame late
RECURSIVE WriteScheduleFromOne(_, _, _, _, _, _)
WriteScheduleFromOne(output, interp_schedule, i, start_frame, v0, v1) ==
    IF i > Len(interp_schedule) THEN output
    ELSE WriteScheduleFromOne(
            Put(output, i + start_frame, slerp(interp_schedule[i], v0, v1)),
            interp_schedule, i + 1, start_frame, v0, v1)

\* for i, t in enumerate(interp_schedule): output[i + start_frame] = f(t)
RECURSIVE WriteSchedule(_, _, _, _, _, _)
WriteSchedule(output, interp_schedule, i, start_frame, v0, v1) ==
    IF i > Len(interp_schedule) THEN output
    ELSE WriteSchedule(
            Put(output, (i - 1) + start_frame, slerp(interp_schedule[i], v0, v1)),
            interp_schedule, i + 1, start_frame, v0, v1)

(***************************************************************************)
(* BYOPFlow: the timeline builders.  self is the flow under construction.  *)
(***************************************************************************)
\* self.seed_schedule[frame]: a list or dict lookup, which fails off its keys
HasSeed(seed_schedule, frame) == frame \in DOMAIN seed_schedule

\* one turn of the loop of get_init_latents over zip(key_frames, key_frames[1:]),
\* and the turns after it; acc carries output, start_latent, generator and the
\* generator states the draws were made from
RECURSIVE LatentPairs(_, _, _, _)
LatentPairs(self, key_frames, idx, acc) ==
    IF idx > Len(key_frames) - 1 THEN [acc EXCEPT !.err = None]
    ELSE
    LET start_frame == key_frames[idx][1]
        end_frame == key_frames[idx + 1][1]
        seeded == ManualSeed(acc.generator, self.seed_schedule[end_frame])
        end_latent == IF self.use_fixed_latent THEN acc.start_latent ELSE Randn(seeded)
        drawn == IF self.use_fixed_latent THEN acc
                 ELSE [acc EXCEPT !.generator = Advance(seeded),
                                  !.draws = Append(acc.draws, seeded)]
        interp_schedule == get_interpolation_schedule(
                               start_frame, end_frame, self.fps, self.audio_array, self.sr)
    IN  IF ~self.use_fixed_latent /\ ~HasSeed(self.seed_schedule, end_frame)
        THEN [acc EXCEPT !.err = "KeyError"]
        ELSE IF interp_schedule.err # None
        THEN [drawn EXCEPT !.err = interp_schedule.err]
        ELSE LatentPairs(self, key_frames, idx + 1,
                [drawn EXCEPT
                    !.output = WriteSchedule(acc.output, interp_schedule.val, 1,
                                             start_frame, acc.start_latent, end_latent),
                    !.start_latent = end_latent])

\* BYOPFlow.get_init_latents
get_init_latents(self, key_frames) ==
    LET seeded == ManualSeed(self.generator, self.seed)
    IN  LatentPairs(self, key_frames, 1,
            [err |-> None,
             output |-> EmptyDict,
             start_latent |-> Randn(seeded),
             generator |-> Advance(seeded),
             draws |-> <<seeded>>])

\* the operands of the calls slerp(t, v0, v1) of one loop over interp_schedule
\* in which the operands do not change
SlerpCalls(interp_schedule, v0, v1) == [i \in DOMAIN interp_schedule |-> <<v0, v1>>]

\* BYOPFlow.get_prompt_embeddings: the loop over the keyframe pairs; acc carries
\* output and the operands slerp was called with so far
RECURSIVE EmbeddingPairs(_, _, _, _)
EmbeddingPairs(self, key_frames, idx, acc) ==
    IF idx > Len(key_frames) - 1 THEN [acc EXCEPT !.err = None]
    ELSE
    LET start_frame == key_frames[idx][1]
        end_frame == key_frames[idx + 1][1]
        start_prompt_embed == prompt_to_embedding(key_frames[idx][2])
        end_prompt_embed == prompt_to_embedding(key_frames[idx + 1][2])
        interp_schedule == get_interpolation_schedule(
                               start_frame, end_frame, self.fps, self.audio_array, self.sr)
    IN  IF interp_schedule.err # None
        THEN [acc EXCEPT !.err = interp_schedule.err]
        ELSE EmbeddingPairs(self, key_frames, idx + 1,
                [acc EXCEPT
                    !.output = WriteSchedule(acc.output, interp_schedule.val, 1, start_frame,
                                             start_prompt_embed, end_prompt_embed),
                    !.slerp_calls = acc.slerp_calls \o
                        SlerpCalls(interp_schedule.val, start_prompt_embed, end_prompt_embed)])

get_prompt_embeddings(self, key_frames) ==
    EmbeddingPairs(self, key_frames, 1,
                   [err |-> None, output |-> EmptyDict, slerp_calls |-> <<>>])

\* key_frame_series.ffill(): each NaN takes the last value before it that is not
\* NaN; the NaNs before the first value stay
RECURSIVE Ffill(_)
Ffill(series) ==
    IF Len(series) <= 1 THEN series
    ELSE LET front == Ffill(SubSeq(series, 1, Len(series) - 1))
             last == series[Len(series)]
         IN  Append(front, IF last = NaNPrompt THEN front[Len(front)] ELSE last)

\* BYOPFlow.get_prompts
get_prompts(self, key_frames) ==
    LET nans == [a \in 1 .. self.max_frames |-> NaNPrompt]
        key_frame_series ==
            [a \in 1 .. self.max_frames |->
                IF \E k \in DOMAIN key_frames : key_frames[k][1] = a - 1
                THEN key_frames[CHOOSE k \in DOMAIN key_frames :
                                    /\ key_frames[k][1] = a - 1
                                    /\ \A j \in DOMAIN key_frames :
                                           key_frames[j][1] = a - 1 => j <= k][2]
                ELSE nans[a]]
        filled == Ffill(key_frame_series)
    IN  [frame_idx \in 0 .. self.max_frames - 1 |-> filled[frame_idx + 1]]

(***************************************************************************)
(* BYOPFlow.__init__                                                       *)
(***************************************************************************)
\* json.loads(text): the text is held as whether it is well formed and, if it
\* is, the object it spells
JsonLoads(text) ==
    IF text.well_formed THEN Ok(text.object) ELSE [err |-> "JSONDecodeError", val |-> EmptyDict]

\* the check with "or" for "and": it raises as soon as one input is set
check_inputs_either(image_input, video_input) == image_input # None \/ video_input # None

\* BYOPFlow.check_inputs: TRUE when it raises
check_inputs(image_input, video_input) == image_input # None /\ video_input # None

\* load_video_frames(video_input): the frames of the video, by frame index; the
\* video has a frame for every frame index a keyframe can sit on
NoFrames == <<>>
LoadVideoFrames(video_input) == <<[i \in 0 .. MaxFrame |-> [video |-> video_input, frame |-> i]]>>

\* the flow object before __init__ has set anything; random is the state of
\* Python's random module, which the constructor may move
NewFlow(kind, cfg, random) ==
    [kind |-> kind,
     cfg |-> cfg,
     random |-> random,
     err |-> None,
     trace |-> <<>>,
     generator |-> NewGenerator,
     frames |-> NoFrames,
     max_frames |-> 0,
     seed_schedule |-> EmptyDict,
     init_latents |-> EmptyDict,
     prompts |-> EmptyDict,
     output_frames |-> <<>>,
     draws |-> <<>>,
     slerp_calls |-> <<>>]

Did(self, step) == [self EXCEPT !.trace = Append(self.trace, step)]
Failed(self, step, e) == [Did(self, step) EXCEPT !.err = e]

\* the names the timeline builders read from self
BuilderView(self) ==
    [seed |-> self.cfg.seed,
     use_fixed_latent |-> self.cfg.use_fixed_latent,
     fps |-> self.cfg.fps,
     audio_array |-> self.cfg.audio_input,
     sr |-> SampleRate,
     generator |-> self.generator,
     seed_schedule |-> self.seed_schedule,
     max_frames |-> self.max_frames]

\* lines 95-99: the two timelines
BYOPTimelines(self) ==
    LET key_frames == self.cfg.key_frames
        latents == get_init_latents(BuilderView(self), key_frames)
        s1 == [self EXCEPT !.generator = latents.generator, !.draws = latents.draws]
        s2 == [Did(s1, "get_init_latents") EXCEPT !.init_latents = latents.output]
        embeds == get_prompt_embeddings(BuilderView(s2), key_frames)
    IN  IF latents.err # None THEN Failed(s1, "get_init_latents", latents.err)
        ELSE IF ~self.cfg.use_prompt_embeds
        THEN [Did(s2, "get_prompts") EXCEPT
                 !.prompts = get_prompts(BuilderView(s2), key_frames)]
        ELSE IF embeds.err # None THEN Failed(s2, "get_prompt_embeddings", embeds.err)
        ELSE [Did(s2, "get_prompt_embeddings") EXCEPT
                 !.prompts = embeds.output, !.slerp_calls = embeds.slerp_calls]

\* lines 87-93: max_frames, and the seed schedule drawn from the random module
\* right after seeding it
BYOPSeedSchedule(self) ==
    LET max_frames == LastFrame(self.cfg.key_frames) + 1
        seeded == RandomSeed(self.cfg.seed)
        drawn == RandInts(seeded, max_frames)
    IN  [Did(self, "seed_schedule") EXCEPT
            !.max_frames = max_frames,
            !.random = <<seeded[1], seeded[2] + max_frames>>,
            !.seed_schedule = [i \in 0 .. max_frames - 1 |-> drawn[i + 1]]]

\* lines 61-73: the input check, then the video and the keyframes
BYOPLoad(self) ==
    IF self.cfg.video_input # None
    THEN [Did(Did(self, "load_video_frames"), "sync_prompts_to_video") EXCEPT
             !.frames = LoadVideoFrames(self.cfg.video_input)]
    ELSE Did(self, "parse_key_frames")

\* BYOPFlow.__init__: the flow it leaves, with err set when it raised
BYOPInit(cfg, random) ==
    LET s0 == NewFlow("byop", cfg, random)
        json == JsonLoads(cfg.additional_pipeline_arguments)
        s1 == Did(s0, "json.loads")
    IN  IF json.err # None THEN Failed(s0, "json.loads", json.err)
        ELSE IF check_inputs(cfg.image_input, cfg.video_input)
        THEN Failed(s1, "check_inputs", "ValueError")
        ELSE BYOPTimelines(BYOPSeedSchedule(BYOPLoad(Did(s1, "check_inputs"))))

(***************************************************************************)
(* BYOPFlow: batching, the pipeline arguments, create                      *)
(***************************************************************************)
RECURSIVE TorchCat(_)
\* torch.cat(tensors, dim=0): the rows of the tensors, in order
TorchCat(tensors) ==
    IF Len(tensors) = 0 THEN <<>>
    ELSE [r \in 1 .. RowsOf(tensors[1]) |-> [of |-> tensors[1], row |-> r]]
            \o TorchCat(Tail(tensors))

EmptyBatch == [frame_idxs |-> <<>>, prompts |-> <<>>, init_latents |-> <<>>, images |-> <<>>]

\* BYOPFlow.batch_generator, from the frame after position pos up to its next
\* yield, the end of frames, or the lookup that raises
RECURSIVE BYOPBatchNext(_, _, _, _, _)
BYOPBatchNext(self, frames, batch_size, pos, batch) ==
    IF pos >= Len(frames) THEN [kind |-> "stop", pos |-> pos, batch |-> EmptyBatch]
    ELSE
    LET frame_idx == frames[pos + 1]
        grown == [frame_idxs |-> Append(batch.frame_idxs, frame_idx),
                  prompts |-> Append(batch.prompts, self.prompts[frame_idx]),
                  init_latents |-> Append(batch.init_latents, self.init_latents[frame_idx]),
                  images |-> IF self.frames # NoFrames
                             THEN Append(batch.images, self.frames[1][frame_idx])
                             ELSE batch.images]
    IN  IF frame_idx \notin DOMAIN self.prompts \/ frame_idx \notin DOMAIN self.init_latents
        THEN [kind |-> "KeyError", pos |-> pos, batch |-> EmptyBatch]
        ELSE IF self.frames # NoFrames /\ frame_idx \notin DOMAIN self.frames[1]
        THEN [kind |-> "IndexError", pos |-> pos, batch |-> EmptyBatch]
        ELSE IF Len(grown.prompts) % batch_size = 0
        THEN [kind |-> "yield", pos |-> pos + 1,
              batch |-> [frame_idxs |-> grown.frame_idxs,
                         prompts |-> IF self.cfg.use_prompt_embeds
                                     THEN TorchCat(grown.prompts) ELSE grown.prompts,
                         init_latents |-> TorchCat(grown.init_latents),
                         images |-> IF self.frames # NoFrames
                                    THEN TorchCat(grown.images) ELSE grown.images]]
        ELSE BYOPBatchNext(self, frames, batch_size, pos + 1, grown)

\* pipe_kwargs.update({key: value}) when cond holds
UpdateIf(cond, kwargs, key, value) == IF cond THEN Put(kwargs, key, value) ELSE kwargs

\* pipe_kwargs.update(other)
RECURSIVE Update(_, _)
Update(kwargs, other) ==
    IF DOMAIN other = {} THEN kwargs
    ELSE LET k == CHOOSE x \in DOMAIN other : TRUE
         IN  Update(Put(kwargs, k, other[k]), [x \in DOMAIN other \ {k} |-> other[x]])

Repeat(x, n) == [i \in 1 .. n |-> x]

\* BYOPFlow.prepare_inputs: the mapping handed to the pipeline
prepare_inputs(self, batch) ==
    LET sig == self.cfg.pipe_signature
        embeds == self.cfg.use_prompt_embeds
        k0 == [k \in {"num_inference_steps", "guidance_scale"} |-> <<"self", k>>]
        k1 == UpdateIf("height" \in sig, k0, "height", <<"self", "height">>)
        k2 == UpdateIf("width" \in sig, k1, "width", <<"self", "width">>)
        k3 == UpdateIf("strength" \in sig, k2, "strength", <<"self", "strength">>)
        k4 == UpdateIf("latents" \in sig, k3, "latents", batch.init_latents)
        k5 == IF "prompt_embeds" \in sig /\ embeds
              THEN Put(k4, "prompt_embeds", batch.prompts)
              ELSE UpdateIf("prompt" \in sig /\ ~embeds, k4, "prompt", batch.prompts)
        k6 == UpdateIf("negative_prompts" \in sig, k5, "negative_prompts",
                       Repeat(<<"self", "negative_prompts">>, Len(batch.prompts)))
        k7 == IF "image" \in sig
              THEN IF self.cfg.video_input # None /\ Len(batch.images) # 0
                   THEN Put(k6, "image", batch.images)
                   ELSE UpdateIf(self.cfg.image_input # None, k6, "image",
                                 Repeat(<<"self", "image_input">>, Len(batch.prompts)))
              ELSE k6
        k8 == UpdateIf("generator" \in sig, k7, "generator",
                       ManualSeed(self.generator, self.cfg.seed))
    IN  Update(k8, JsonLoads(self.cfg.additional_pipeline_arguments).val)

\* self.generator after prepare_inputs
GeneratorAfterPrepare(self) ==
    IF "generator" \in self.cfg.pipe_signature
    THEN ManualSeed(self.generator, self.cfg.seed) ELSE self.generator

(***************************************************************************)
(* GiffusionFlow                                                           *)
(***************************************************************************)
\* self.pad_embedding(start, end): both embeddings, the one with fewer rows
\* padded to the rows of the other
pad_embedding(start, end) ==
    LET rows == Max2(start.rows, end.rows)
    IN  <<[start EXCEPT !.rows = rows], [end EXCEPT !.rows = rows]>>

\* {kf: random.randint(...) for kf, _ in self.key_frames}: one seed per keyframe,
\* drawn in keyframe order
RECURSIVE KeyframeSeeds(_, _, _, _)
KeyframeSeeds(key_frames, i, state, dict) ==
    IF i > Len(key_frames) THEN dict
    ELSE KeyframeSeeds(key_frames, i + 1, <<state[1], state[2] + 1>>,
                       Put(dict, key_frames[i][1], RandInt(state)))

\* for i, t in enumerate(interp_schedule): the body of lines 102-111; acc carries
\* the two outputs and the two embeddings, which the loop pads again each turn
RECURSIVE GiffusionWrite(_, _, _, _, _, _)
GiffusionWrite(acc, interp_schedule, i, start_frame, start_latent, end_latent) ==
    IF i > Len(interp_schedule) THEN acc
    ELSE LET t == interp_schedule[i]
             padded == pad_embedding(acc.start_text_embeddings, acc.end_text_embeddings)
         IN  GiffusionWrite(
                [acc EXCEPT
                    !.start_text_embeddings = padded[1],
                    !.end_text_embeddings = padded[2],
                    !.latent_output = Put(acc.latent_output, (i - 1) + start_frame,
                                          slerp(t, start_latent, end_latent)),
                    !.text_output = Put(acc.text_output, (i - 1) + start_frame,
                                        slerp(t, padded[1], padded[2])),
                    !.slerp_calls = Append(acc.slerp_calls, <<padded[1], padded[2]>>)],
                interp_schedule, i + 1, start_frame, start_latent, end_latent)

RECURSIVE GiffusionPairs(_, _, _, _)
GiffusionPairs(self, key_frames, idx, acc) ==
    IF idx > Len(key_frames) - 1 THEN [acc EXCEPT !.err = None]
    ELSE
    LET start_frame == key_frames[idx][1]
        end_frame == key_frames[idx + 1][1]
        seeded == ManualSeed(acc.generator, self.seed_schedule[end_frame])
        end_latent == IF self.use_fixed_latent THEN acc.start_latent ELSE Randn(seeded)
        drawn == IF self.use_fixed_latent THEN acc
                 ELSE [acc EXCEPT !.generator = Advance(seeded),
                                  !.draws = Append(acc.draws, seeded)]
        num_frames == (end_frame - start_frame) + 1
        interp_schedule == Linspace(1, num_frames)
        written == GiffusionWrite(
                      [drawn EXCEPT
                          !.start_text_embeddings = prompt_to_embedding(key_frames[idx][2]),
                          !.end_text_embeddings = prompt_to_embedding(key_frames[idx + 1][2])],
                      interp_schedule, 1, start_frame, acc.start_latent, end_latent)
    IN  IF ~self.use_fixed_latent /\ ~HasSeed(self.seed_schedule, end_frame)
        THEN [acc EXCEPT !.err = "KeyError"]
        ELSE GiffusionPairs(self, key_frames, idx + 1,
                            [written EXCEPT !.start_latent = end_latent])

\* GiffusionFlow.get_init_latents_and_text_embeddings
get_init_latents_and_text_embeddings(self, key_frames) ==
    LET seeded == ManualSeed(self.generator, self.seed)
    IN  GiffusionPairs(self, key_frames, 1,
            [err |-> None,
             latent_output |-> EmptyDict,
             text_output |-> EmptyDict,
             slerp_calls |-> <<>>,
             start_text_embeddings |-> prompt_to_embedding(NaNPrompt),
             end_text_embeddings |-> prompt_to_embedding(NaNPrompt),
             start_latent |-> Randn(seeded),
             generator |-> Advance(seeded),
             draws |-> <<seeded>>])

\* GiffusionFlow.__init__
GiffusionInit(cfg, random) ==
    LET s0 == Did(NewFlow("giffusion", cfg, random), "parse_key_frames")
        seeded == RandomSeed(cfg.seed)
        s1 == [Did(s0, "seed_schedule") EXCEPT
                  !.seed_schedule = KeyframeSeeds(cfg.key_frames, 1, seeded, EmptyDict),
                  !.random = <<seeded[1], seeded[2] + Len(cfg.key_frames)>>,
                  !.max_frames = LastFrame(cfg.key_frames) + 1]
        built == get_init_latents_and_text_embeddings(
                    [seed |-> cfg.seed,
                     use_fixed_latent |-> cfg.use_fixed_latent,
                     generator |-> s1.generator,
                     seed_schedule |-> s1.seed_schedule],
                    cfg.key_frames)
        s2 == [Did(s1, "get_init_latents_and_text_embeddings") EXCEPT
                  !.generator = built.generator,
                  !.draws = built.draws]
    IN  IF built.err # None THEN [s2 EXCEPT !.err = built.err]
        ELSE [s2 EXCEPT !.init_latents = built.latent_output,
                        !.prompts = built.text_output,
                        !.slerp_calls = built.slerp_calls]

\* GiffusionFlow.batch_generator, from the frame after position pos up to its
\* next yield, the end of frames, or the lookup that raises
RECURSIVE GiffusionBatchNext(_, _, _, _, _)
GiffusionBatchNext(self, frames, batch_size, pos, batch) ==
    IF pos >= Len(frames) THEN [kind |-> "stop", pos |-> pos, batch |-> EmptyBatch]
    ELSE
    LET frame_idx == frames[pos + 1]
        grown == [frame_idxs |-> Append(batch.frame_idxs, frame_idx),
                  prompts |-> Append(batch.prompts, self.prompts[frame_idx]),
                  init_latents |-> Append(batch.init_latents, self.init_latents[frame_idx]),
                  images |-> batch.images]
    IN  IF frame_idx \notin DOMAIN self.prompts \/ frame_idx \notin DOMAIN self.init_latents
        THEN [kind |-> "KeyError", pos |-> pos, batch |-> EmptyBatch]
        ELSE IF Len(grown.prompts) % batch_size # 0
        THEN GiffusionBatchNext(self, frames, batch_size, pos + 1, grown)
        ELSE IF ~HasSeed(self.seed_schedule, frame_idx)
        THEN [kind |-> "KeyError", pos |-> pos, batch |-> EmptyBatch]
        ELSE [kind |-> "yield", pos |-> pos + 1,
              batch |-> [frame_idxs |-> grown.frame_idxs,
                         prompts |-> TorchCat(grown.prompts),
                         init_latents |-> TorchCat(grown.init_latents),
                         images |-> <<>>,
                         generators |-> <<ManualSeed(NewGenerator,
                                                     self.seed_schedule[frame_idx])>>]]

\* GiffusionFlow.create, lines 150-175: the mapping handed to the pipeline
GiffusionKwargs(self, batch) ==
    LET sig == self.cfg.pipe_signature
        k0 == [k \in {"height", "width", "num_inference_steps", "guidance_scale"} |->
                  <<"self", k>>]
        k1 == IF "image" \in sig /\ self.cfg.init_image # None
              THEN Put(Put(Put(k0, "image", <<"self", "init_image">>),
                           "strength", <<"self", "strength">>),
                       "generator", batch.generators)
              ELSE k0
        k2 == UpdateIf("latents" \in sig, k1, "latents", batch.init_latents)
    IN  UpdateIf("prompt_embeds" \in sig, k2, "prompt_embeds", batch.prompts)

(***************************************************************************)
(* generate.py: the stand-alone script                                     *)
(***************************************************************************)
\* interpolate_latents_and_text_embeddings: the loop over the keyframes after
\* the first; the generator is drawn from as run() left it, never seeded again
RECURSIVE ScriptKeyframes(_, _, _)
ScriptKeyframes(key_frames, idx, acc) ==
    IF idx > Len(key_frames) THEN acc
    ELSE
    LET current_frame_idx == key_frames[idx][1]
        current_latent == Randn(acc.generator)
        current_text_embeddings == prompt_to_embedding(key_frames[idx][2])
        num_steps == current_frame_idx - acc.start_frame_idx
        interp_schedule == Linspace(1, num_steps + 1)
    IN  ScriptKeyframes(key_frames, idx + 1,
            [generator |-> Advance(acc.generator),
             draws |-> Append(acc.draws, acc.generator),
             latent_output |-> WriteSchedule(acc.latent_output, interp_schedule, 1,
                                   acc.start_frame_idx, acc.start_latent, current_latent),
             text_output |-> WriteSchedule(acc.text_output, interp_schedule, 1,
                                 acc.start_frame_idx, acc.start_text_embeddings,
                                 current_text_embeddings),
             slerp_calls |-> acc.slerp_calls \o
                 SlerpCalls(interp_schedule, acc.start_text_embeddings,
                            current_text_embeddings),
             start_latent |-> current_latent,
             start_text_embeddings |-> current_text_embeddings,
             start_frame_idx |-> current_frame_idx])

interpolate_latents_and_text_embeddings(key_frames, generator) ==
    ScriptKeyframes(key_frames, 2,
        [generator |-> Advance(generator),
         draws |-> <<generator>>,
         latent_output |-> EmptyDict,
         text_output |-> EmptyDict,
         slerp_calls |-> <<>>,
         start_latent |-> Randn(generator),
         start_text_embeddings |-> prompt_to_embedding(key_frames[1][2]),
         start_frame_idx |-> key_frames[1][1]])

\* run(): lines 270-299, up to the first frame index the timeline lacks
RECURSIVE ScriptFrames(_, _, _)
ScriptFrames(self, frame_idx, max_frames) ==
    IF frame_idx > max_frames THEN Did(self, "save_gif")
    ELSE IF frame_idx \notin DOMAIN self.init_latents THEN [self EXCEPT !.err = "KeyError"]
    ELSE ScriptFrames([self EXCEPT !.output_frames = Append(self.output_frames, frame_idx)],
                      frame_idx + 1, max_frames)

run(cfg, random) ==
    LET s0 == NewFlow("script", cfg, random)
        generator == ManualSeed(NewGenerator, cfg.seed)
        max_frames == LastFrame(cfg.key_frames)
        built == interpolate_latents_and_text_embeddings(cfg.key_frames, generator)
        s1 == [Did(Did(s0, "parse_key_frames"), "interpolate_latents_and_text_embeddings")
                  EXCEPT !.generator = built.generator,
                         !.draws = built.draws,
                         !.max_frames = max_frames,
                         !.init_latents = built.latent_output,
                         !.prompts = built.text_output,
                         !.slerp_calls = built.slerp_calls]
    IN  ScriptFrames(s1, 0, max_frames)

(***************************************************************************)
(* The inputs.                                                             *)
(***************************************************************************)
Seeds == {7, 42}

OptionKeys == {"height", "width", "strength", "latents", "prompt_embeds", "prompt",
               "negative_prompts", "image", "generator"}

\* every pipeline takes the two sampling parameters the flows always pass
BaseSignature == {"num_inference_steps", "guidance_scale"}

\* inspect.signature(self.pipe).parameters.keys(), for four pipelines
Signatures ==
    {BaseSignature \cup {"prompt", "latents"},
     BaseSignature \cup {"prompt_embeds", "latents", "height", "width"},
     BaseSignature \cup {"prompt", "prompt_embeds", "image", "strength", "generator",
                         "negative_prompts"},
     BaseSignature \cup OptionKeys}

\* additional_pipeline_arguments: the default "{}", a text that is not JSON, and
\* an object that sets "image" and "eta"
JsonTexts ==
    {[well_formed |-> TRUE, object |-> EmptyDict],
     [well_formed |-> FALSE, object |-> EmptyDict],
     [well_formed |-> TRUE, object |-> [k \in {"image", "eta"} |-> <<"json", k>>]]}

\* two audio arrays long enough for every frame: silence, and a beat
Silence == <<[i \in 1 .. MaxAudio |-> 0]>>
Beat == <<[i \in 1 .. MaxAudio |-> i % 2]>>

DefaultBYOP ==
    [key_frames |-> <<<<0, Prompt(0)>>, <<1, Prompt(1)>>>>,
     use_fixed_latent |-> FALSE,
     use_prompt_embeds |-> TRUE,
     image_input |-> None,
     video_input |-> None,
     audio_input |-> NoAudio,
     seed |-> 42,
     batch_size |-> 1,
     fps |-> Fps,
     pipe_signature |-> BaseSignature \cup OptionKeys,
     additional_pipeline_arguments |-> [well_formed |-> TRUE, object |-> EmptyDict]]

\* the configurations of BYOPFlow: those that vary what the timeline is built
\* from, and those that vary what the pipeline arguments are built from
BYOPTimelineConfigs ==
    {[DefaultBYOP EXCEPT !.key_frames = kf, !.use_fixed_latent = fixed,
                         !.use_prompt_embeds = embeds, !.audio_input = audio,
                         !.seed = seed, !.batch_size = bs] :
        kf \in KeyFrameSeqs, fixed \in BOOLEAN, embeds \in BOOLEAN,
        audio \in {NoAudio, Silence, Beat}, seed \in Seeds, bs \in 1 .. MaxBatch}

BYOPArgumentConfigs ==
    {[DefaultBYOP EXCEPT !.use_prompt_embeds = embeds, !.image_input = image,
                         !.video_input = video, !.pipe_signature = sig,
                         !.additional_pipeline_arguments = json] :
        embeds \in BOOLEAN, image \in {None, "image.png"},
        video \in {None, "video.mp4"}, sig \in Signatures, json \in JsonTexts}

BYOPConfigs == BYOPTimelineConfigs \cup BYOPArgumentConfigs

GiffusionConfigs ==
    [key_frames : KeyFrameSeqs,
     use_fixed_latent : BOOLEAN,
     seed : Seeds,
     batch_size : 1 .. MaxBatch,
     init_image : {None},
     pipe_signature : {BaseSignature \cup OptionKeys}]

ScriptConfigs == [key_frames : KeyFrameSeqs, seed : Seeds]

\* the frames asked of create(): none (the default), or a run of frame indices
RequestedFrames == {<<>>} \cup {[i \in 1 .. (hi - lo) + 1 |-> lo + i - 1] : lo \in Frames, hi \in Frames}

(***************************************************************************)
(* The state.                                                              *)
(***************************************************************************)
VARIABLES
    sched,     \* the last call of get_interpolation_schedule: its arguments and result
    pyrandom,  \* the state of Python's random module, shared by the whole process
    flow,      \* the flow object, as its constructor left it
    prev,      \* the seeds and draws of the run before, when it had the same inputs
    gen,       \* the generator that create() returned: where it stands, what it yielded
    calls      \* the mappings the pipeline was invoked with, in order

vars == <<sched, pyrandom, flow, prev, gen, calls>>

NoCall == [pc |-> "idle"]
NoFlow == [kind |-> "none"]
NoGen == [status |-> "none"]

Init ==
    /\ sched = NoCall
    /\ pyrandom = <<-1, 0>>
    /\ flow = NoFlow
    /\ prev = NoFlow
    /\ gen = NoGen
    /\ calls = <<>>

(***************************************************************************)
(* The schedule on its own: a call on a keyframe pair start_frame <=       *)
(* end_frame, with no audio or with any audio array.                       *)
(***************************************************************************)
SchedInit ==
    /\ \E start_frame \in Frames, end_frame \in Frames, audio_array \in AudioArrays \cup {NoAudio} :
          /\ start_frame <= end_frame
          /\ sched = [pc |-> "called", start_frame |-> start_frame,
                      end_frame |-> end_frame, audio_array |-> audio_array]
    /\ pyrandom = <<-1, 0>>
    /\ flow = NoFlow
    /\ prev = NoFlow
    /\ gen = NoGen
    /\ calls = <<>>

CallSchedule ==
    /\ sched.pc = "called"
    /\ sched' = [pc |-> "returned",
                 start_frame |-> sched.start_frame,
                 end_frame |-> sched.end_frame,
                 audio_array |-> sched.audio_array,
                 out |-> get_interpolation_schedule(sched.start_frame, sched.end_frame,
                                                    Fps, sched.audio_array, SampleRate)]
    /\ UNCHANGED <<pyrandom, flow, prev, gen, calls>>

SchedNext == CallSchedule

SpecSched == SchedInit /\ [][SchedNext]_vars

(***************************************************************************)
(* The program: a flow is constructed (or the script is run), perhaps a    *)
(* second time with the same inputs, and create() is iterated.             *)
(***************************************************************************)
Construct(kind, cfg, random) ==
    IF kind = "byop" THEN BYOPInit(cfg, random)
    ELSE IF kind = "giffusion" THEN GiffusionInit(cfg, random)
    ELSE run(cfg, random)

\* what two runs are compared on
Digest(f) == [kind |-> f.kind, cfg |-> f.cfg, err |-> f.err,
              seed_schedule |-> f.seed_schedule, draws |-> f.draws]

FirstRun(kind, cfg) ==
    /\ flow = NoFlow
    /\ flow' = Construct(kind, cfg, pyrandom)
    /\ pyrandom' = flow'.random
    /\ UNCHANGED <<sched, prev, gen, calls>>

\* BYOPFlow(pipe, text_prompts, device, ...)
ConstructBYOP == \E cfg \in BYOPConfigs : FirstRun("byop", cfg)

\* GiffusionFlow(pipe, text_prompts, ...)
ConstructGiffusion == \E cfg \in GiffusionConfigs : FirstRun("giffusion", cfg)

\* python generate.py ...
RunScript == \E cfg \in ScriptConfigs : FirstRun("script", cfg)

\* the same constructor (or script) again, in the same process, with the same inputs
SecondRun ==
    /\ flow # NoFlow
    /\ prev = NoFlow
    /\ gen = NoGen
    /\ flow' = Construct(flow.kind, flow.cfg, pyrandom)
    /\ pyrandom' = flow'.random
    /\ prev' = Digest(flow)
    /\ UNCHANGED <<sched, gen, calls>>

\* flow.create(frames): a generator, which has not run yet (the flow of a second
\* run is iterated no differently, and is left alone)
Create(frames) ==
    /\ flow.kind \in {"byop", "giffusion"}
    /\ flow.err = None
    /\ prev = NoFlow
    /\ gen = NoGen
    /\ gen' = [status |-> "running",
               frames |-> IF frames # <<>> THEN frames
                          ELSE [i \in 1 .. flow.max_frames |-> i - 1],
               pos |-> 0,
               batches |-> <<>>,
               err |-> None]
    /\ UNCHANGED <<sched, pyrandom, flow, prev, calls>>

\* self.pipe(**pipe_kwargs): Python refuses a keyword the pipeline does not take
PipeAccepts(signature, kwargs) == DOMAIN kwargs \subseteq signature

\* what a resumption of create() leaves of the generator, given what the batch
\* generator did and whether the pipeline took the call
Resumed(step, accepted) ==
    IF step.kind = "stop" THEN [gen EXCEPT !.status = "done", !.pos = step.pos]
    ELSE IF step.kind # "yield"
    THEN [gen EXCEPT !.status = "raised", !.err = step.kind, !.pos = step.pos]
    ELSE IF ~accepted
    THEN [gen EXCEPT !.status = "raised", !.err = "TypeError", !.pos = step.pos,
                     !.batches = Append(gen.batches, step.batch)]
    ELSE [gen EXCEPT !.pos = step.pos, !.batches = Append(gen.batches, step.batch)]

\* next(BYOPFlow.create(frames)): the batch generator runs to its next yield, the
\* arguments are prepared and the pipeline is invoked
NextBYOP ==
    /\ flow.kind = "byop"
    /\ gen.status = "running"
    /\ LET step == BYOPBatchNext(flow, gen.frames, flow.cfg.batch_size, gen.pos, EmptyBatch)
           pipe_kwargs == prepare_inputs(flow, step.batch)
           accepted == PipeAccepts(flow.cfg.pipe_signature, pipe_kwargs)
       IN  /\ gen' = Resumed(step, step.kind = "yield" /\ accepted)
           /\ IF step.kind = "yield"
              THEN /\ calls' = Append(calls, [kwargs |-> pipe_kwargs, accepted |-> accepted])
                   /\ flow' = [flow EXCEPT !.generator = GeneratorAfterPrepare(flow)]
              ELSE UNCHANGED <<calls, flow>>
    /\ UNCHANGED <<sched, pyrandom, prev>>

\* next(GiffusionFlow.create(frames))
NextGiffusion ==
    /\ flow.kind = "giffusion"
    /\ gen.status = "running"
    /\ LET step == GiffusionBatchNext(flow, gen.frames, flow.cfg.batch_size, gen.pos,
                                      EmptyBatch)
           pipe_kwargs == GiffusionKwargs(flow, step.batch)
           accepted == PipeAccepts(flow.cfg.pipe_signature, pipe_kwargs)
       IN  /\ gen' = Resumed(step, step.kind = "yield" /\ accepted)
           /\ IF step.kind = "yield"
              THEN calls' = Append(calls, [kwargs |-> pipe_kwargs, accepted |-> accepted])
              ELSE UNCHANGED calls
    /\ UNCHANGED <<sched, pyrandom, flow, prev>>

Next ==
    \/ ConstructBYOP
    \/ ConstructGiffusion
    \/ RunScript
    \/ SecondRun
    \/ \E frames \in RequestedFrames : Create(frames)
    \/ NextBYOP
    \/ NextGiffusion

Spec == Init /\ [][Next]_vars

(***************************************************************************)
(* The claims, under Spec unless said otherwise.                           *)
(***************************************************************************)
IsFlow(kinds) == flow.kind \in kinds
Built(kinds) == IsFlow(kinds) /\ flow.err = None
KeyFrames == flow.cfg.key_frames
FirstKeyFrame == KeyFrames[1][1]
KeyFrameIndices == {KeyFrames[i][1] : i \in DOMAIN KeyFrames}

EmbeddingMode == flow.kind = "giffusion" \/ flow.cfg.use_prompt_embeds

\* C1: with two or more keyframes, the latent timeline and the prompt-embedding
\* timeline of a constructed flow each hold max_frames - first_keyframe_frame
\* entries, one for every frame index from the first keyframe to max_frames - 1
\* and none for any other
C1_TimelineCoversKeyframeRange ==
    (Built({"byop", "giffusion"}) /\ Len(KeyFrames) >= 2) =>
        /\ DOMAIN flow.init_latents = FirstKeyFrame .. flow.max_frames - 1
        /\ Cardinality(DOMAIN flow.init_latents) = flow.max_frames - FirstKeyFrame
        /\ EmbeddingMode =>
              /\ DOMAIN flow.prompts = FirstKeyFrame .. flow.max_frames - 1
              /\ Cardinality(DOMAIN flow.prompts) = flow.max_frames - FirstKeyFrame

\* a flow built in audio mode from three keyframes, the first after frame 0
C1_Witness ==
    /\ Built({"byop"})
    /\ Len(KeyFrames) = 3
    /\ FirstKeyFrame > 0
    /\ flow.cfg.audio_input = Beat
    /\ flow.cfg.use_prompt_embeds
    /\ Cardinality(DOMAIN flow.init_latents) = flow.max_frames - FirstKeyFrame

\* the frames a finished or failed batch generator was asked for all have entries
\* in both timelines
RequestInTimeline ==
    \A i \in DOMAIN gen.frames :
        gen.frames[i] \in DOMAIN flow.init_latents \cap DOMAIN flow.prompts

BatchSize == flow.cfg.batch_size

\* the batch generator is finished: exhausted, or stopped by its own exception
BatchGeneratorEnded ==
    /\ gen.status \in {"done", "raised"}
    /\ gen.err # "TypeError"

\* C2: for any list of n requested frames and any batch_size >= 1, batch_generator
\* yields floor(n / batch_size) batches, batch k holding the entries of requested
\* frames k * batch_size .. k * batch_size + batch_size - 1 in request order, the
\* trailing n mod batch_size frames in no batch.  (Stated for requested frames
\* that have timeline entries.)
C2_AsClaimed ==
    (BatchGeneratorEnded /\ RequestInTimeline) =>
        /\ Len(gen.batches) = Len(gen.frames) \div BatchSize
        /\ \A k \in 1 .. Len(gen.batches) :
              gen.batches[k].frame_idxs =
                  SubSeq(gen.frames, (k - 1) * BatchSize + 1, k * BatchSize)

\* C4: in forward-fill mode every frame index of the prompt timeline resolves to
\* the prompt of the keyframe with the greatest frame_index <= f, and the
\* timeline has no entry that is not the prompt of some keyframe
C4_AsClaimed ==
    (Built({"byop"}) /\ ~flow.cfg.use_prompt_embeds) =>
        \A f \in DOMAIN flow.prompts :
            \E k \in DOMAIN KeyFrames :
                /\ KeyFrames[k][1] <= f
                /\ \A j \in DOMAIN KeyFrames : KeyFrames[j][1] <= f => KeyFrames[j][1] <= KeyFrames[k][1]
                /\ flow.prompts[f] = KeyFrames[k][2]

\* C5: the mapping prepare_inputs returns holds an option key only if the
\* capability set holds it, whatever image, video, negative prompt or additional
\* pipeline arguments are configured
C5_AsClaimed ==
    IsFlow({"byop"}) =>
        \A i \in DOMAIN calls :
            (DOMAIN calls[i].kwargs) \cap OptionKeys \subseteq flow.cfg.pipe_signature

BothInputs == flow.cfg.image_input # None /\ flow.cfg.video_input # None

Done(step) == step \in Range(flow.trace)

NothingBuilt ==
    /\ ~Done("load_video_frames")
    /\ ~Done("sync_prompts_to_video")
    /\ ~Done("parse_key_frames")
    /\ ~Done("seed_schedule")
    /\ ~Done("get_init_latents")
    /\ flow.frames = NoFrames
    /\ flow.seed_schedule = EmptyDict
    /\ flow.init_latents = EmptyDict
    /\ flow.prompts = EmptyDict

CheckFailed == flow.err = "ValueError" /\ flow.trace[Len(flow.trace)] = "check_inputs"

\* C6 as claimed: constructing a BYOPFlow with both image_input and video_input
\* fails with the conflicting-input error, before the video is loaded, a keyframe
\* parsed, a seed schedule or a timeline built; with at most one of the two set
\* the check does not fail
C6_AsClaimed ==
    IsFlow({"byop"}) =>
        /\ BothInputs => (CheckFailed /\ NothingBuilt)
        /\ ~BothInputs => ~CheckFailed

\* C6 as amended: with both inputs set the constructor fails before the video is
\* loaded, a keyframe parsed, a seed schedule or a timeline built, and it fails
\* with the conflicting-input error whenever it reached the check, that is unless
\* json.loads of additional_pipeline_arguments had raised before; with at most
\* one of the two set the check does not fail
C6_ConflictingInputsFailEarly ==
    IsFlow({"byop"}) =>
        /\ BothInputs =>
              /\ flow.err # None
              /\ NothingBuilt
              /\ Done("check_inputs") <=> flow.cfg.additional_pipeline_arguments.well_formed
              /\ Done("check_inputs") => CheckFailed
              /\ ~Done("check_inputs") => flow.err = "JSONDecodeError"
        /\ ~BothInputs => ~CheckFailed

\* both inputs set, well-formed additional arguments: the check has raised
C6_Witness ==
    /\ IsFlow({"byop"})
    /\ BothInputs
    /\ flow.cfg.additional_pipeline_arguments.well_formed
    /\ CheckFailed

SeedsOf(f) == {f.cfg.seed} \cup {f.seed_schedule[i] : i \in DOMAIN f.seed_schedule}

\* C7: two runs with the same master seed and keyframes have the same seed
\* schedule and the same latent draws; every draw is made from a generator that
\* was seeded, right before it, with the master seed or a seed of the schedule
C7_AsClaimed ==
    /\ flow # NoFlow =>
          \A i \in DOMAIN flow.draws :
              /\ flow.draws[i][2] = 0
              /\ flow.draws[i][1] \in SeedsOf(flow)
    /\ prev # NoFlow =>
          /\ prev.seed_schedule = flow.seed_schedule
          /\ prev.draws = flow.draws

\* C8: in every flow the seed schedule has a seed for each frame index
\* 0 .. max_frames - 1, so no seed lookup fails while the timeline is built or
\* a frame index of the timeline is batched
C8_AsClaimed ==
    Built({"byop", "giffusion"}) =>
        /\ 0 .. flow.max_frames - 1 \subseteq DOMAIN flow.seed_schedule
        /\ (gen # NoGen /\ gen.status = "raised" /\ RequestInTimeline) => gen.err # "KeyError"

DefaultRequest == gen.frames = [i \in 1 .. flow.max_frames |-> i - 1]

\* C9: a single keyframe gives a static schedule of length 1: the latent and the
\* prompt timeline each hold one entry, at the keyframe's frame index, and
\* create() over the default frames with batch_size 1 can look up every frame
C9_AsClaimed ==
    (Built({"byop"}) /\ Len(KeyFrames) = 1) =>
        /\ DOMAIN flow.init_latents = {FirstKeyFrame}
        /\ DOMAIN flow.prompts = {FirstKeyFrame}
        /\ (gen # NoGen /\ DefaultRequest /\ BatchSize = 1) =>
              gen.err \notin {"KeyError", "IndexError"}

EmbedsUnsupported ==
    /\ IsFlow({"byop"})
    /\ flow.cfg.use_prompt_embeds
    /\ "prompt_embeds" \notin flow.cfg.pipe_signature

\* C10: with prompt-embedding mode on and no prompt_embeds in the capability set
\* the run ends with an error before the pipeline is invoked, so the pipeline is
\* never invoked with a mapping that has neither prompt_embeds nor prompt
C10_AsClaimed ==
    EmbedsUnsupported =>
        /\ calls = <<>>
        /\ gen # NoGen => gen.status # "done"

(***************************************************************************)
(* C11                                                                     *)
(***************************************************************************)
\* the latent get_init_latents draws for the k-th keyframe: the start latent for
\* the first (and, with a fixed latent, for all), else the end latent of the pair
\* ending there, drawn right after seeding with that frame's seed
KeyframeLatent(k) ==
    IF k = 1 \/ flow.cfg.use_fixed_latent
    THEN Randn(ManualSeed(NewGenerator, flow.cfg.seed))
    ELSE Randn(ManualSeed(NewGenerator, flow.seed_schedule[KeyFrames[k][1]]))

PassesThroughKeyframes ==
    \A k \in DOMAIN KeyFrames :
        /\ flow.init_latents[KeyFrames[k][1]] = KeyframeLatent(k)
        /\ flow.cfg.use_prompt_embeds =>
               flow.prompts[KeyFrames[k][1]] = prompt_to_embedding(KeyFrames[k][2])

\* the keyframes' embeddings have one shape, the case the interpolator is
\* specified for
OneShape ==
    \A j, k \in DOMAIN KeyFrames :
        RowsOf(prompt_to_embedding(KeyFrames[j][2])) = RowsOf(prompt_to_embedding(KeyFrames[k][2]))

\* C11: in a BYOPFlow built from two or more keyframes, in uniform and in audio
\* mode, the latent timeline holds at each keyframe's frame index that keyframe's
\* endpoint latent, and the embedding timeline holds there the embedding of that
\* keyframe's own prompt.  (Stated for keyframes whose embeddings have one shape.)
C11_AsClaimed ==
    (Built({"byop"}) /\ Len(KeyFrames) >= 2 /\ OneShape) => PassesThroughKeyframes

\* what the code does keep: the keyframes are passed through when the audio, if
\* there is any, is not silent
C11_UnlessSilent ==
    (/\ Built({"byop"})
     /\ Len(KeyFrames) >= 2
     /\ OneShape
     /\ flow.cfg.audio_input # Silence) => PassesThroughKeyframes

(***************************************************************************)
(* C12                                                                     *)
(***************************************************************************)
SameShape(call) == RowsOf(call[1]) = RowsOf(call[2])

\* C12: in every flow that interpolates prompt embeddings, and in the script, the
\* two embeddings of every call of the interpolator have the same shape
C12_AsClaimed ==
    IsFlow({"byop", "giffusion", "script"}) =>
        \A i \in DOMAIN flow.slerp_calls : SameShape(flow.slerp_calls[i])

\* what the code does keep: GiffusionFlow pads before each call
C12_GiffusionPads ==
    IsFlow({"giffusion"}) =>
        \A i \in DOMAIN flow.slerp_calls : SameShape(flow.slerp_calls[i])

(***************************************************************************)
(* C13                                                                     *)
(***************************************************************************)
YieldedBatches == IF gen = NoGen THEN <<>> ELSE gen.batches

\* a concatenated resource holds batch_size rows, row j taken from the timeline
\* entry of the batch's j-th frame
RowsFollowFrames(rows, batch, timeline) ==
    /\ Len(rows) = BatchSize
    /\ \A j \in DOMAIN rows :
           j \in DOMAIN batch.frame_idxs /\ rows[j].of = timeline[batch.frame_idxs[j]]

LatentsFollowFrames(batch) == RowsFollowFrames(batch.init_latents, batch, flow.init_latents)

PromptsFollowFrames(batch) ==
    IF EmbeddingMode THEN RowsFollowFrames(batch.prompts, batch, flow.prompts)
    ELSE /\ Len(batch.prompts) = BatchSize
         /\ \A j \in DOMAIN batch.prompts :
                batch.prompts[j] = flow.prompts[batch.frame_idxs[j]]

ImagesFollowFrames(batch) ==
    flow.frames # NoFrames => RowsFollowFrames(batch.images, batch, flow.frames[1])

GeneratorsFollowFrames(batch) ==
    "generators" \in DOMAIN batch =>
        /\ Len(batch.generators) = BatchSize
        /\ \A j \in DOMAIN batch.generators :
               /\ j \in DOMAIN batch.frame_idxs
               /\ batch.generators[j] =
                      ManualSeed(NewGenerator, flow.seed_schedule[batch.frame_idxs[j]])

\* C13: every batch a flow's batch_generator yields holds batch_size items of
\* each per-frame resource (latents, prompts, video frames, seeded generators),
\* item j of each belonging to the j-th frame of the batch
C13_AsClaimed ==
    \A n \in DOMAIN YieldedBatches :
        /\ Len(YieldedBatches[n].frame_idxs) = BatchSize
        /\ LatentsFollowFrames(YieldedBatches[n])
        /\ PromptsFollowFrames(YieldedBatches[n])
        /\ ImagesFollowFrames(YieldedBatches[n])
        /\ GeneratorsFollowFrames(YieldedBatches[n])

\* what the code does keep: the latents and the video frames of every batch
C13_LatentsAndImages ==
    \A n \in DOMAIN YieldedBatches :
        /\ Len(YieldedBatches[n].frame_idxs) = BatchSize
        /\ LatentsFollowFrames(YieldedBatches[n])
        /\ ImagesFollowFrames(YieldedBatches[n])

(***************************************************************************)
(* C3, under SpecSched                                                     *)
(***************************************************************************)
Returned == sched.pc = "returned" /\ sched.out.err = None

MonotoneFrom0To1(s) ==
    /\ Len(s) >= 1
    /\ FracEq(s[1], FracInt(0))
    /\ FracEq(s[Len(s)], FracInt(1))
    /\ \A i \in 1 .. Len(s) - 1 : FracLE(s[i], s[i + 1])

\* C3: for every keyframe pair, in uniform and in audio mode, the schedule that
\* get_interpolation_schedule returns has end_frame - start_frame + 1 fractions,
\* never decreasing, the first 0 and the last 1.  (Stated for start_frame <
\* end_frame: a schedule of one fraction cannot begin with 0 and end with 1.)
C3_AsClaimed ==
    (Returned /\ sched.start_frame < sched.end_frame) =>
        /\ Len(sched.out.val) = sched.end_frame - sched.start_frame + 1
        /\ MonotoneFrom0To1(sched.out.val)

\* what the code does keep: the length always, and the shape of the schedule in
\* uniform mode and whenever the slice's onset envelope is not all zero
SliceOf(c) ==
    Slice(c.audio_array[1], SampleOf(c.start_frame, Fps, SampleRate),
          SampleOf(c.end_frame, Fps, SampleRate))

C3_Length ==
    Returned => Len(sched.out.val) = sched.end_frame - sched.start_frame + 1

C3_UnlessSilent ==
    (/\ Returned
     /\ sched.start_frame < sched.end_frame
     /\ sched.audio_array # NoAudio => SeqMax(OnsetStrength(SliceOf(sched))) > 0)
        => MonotoneFrom0To1(sched.out.val)

(***************************************************************************)
(* C14, under SpecSched                                                    *)
(***************************************************************************)
Degenerate == sched.pc = "returned" /\ sched.start_frame = sched.end_frame

JustZero(out) == out.err = None /\ Len(out.val) = 1 /\ FracEq(out.val[1], FracInt(0))

\* C14: for a pair with start_frame = end_frame the call returns exactly [0],
\* with or without an audio array, the audio never sliced nor analysed
C14_AsClaimed == Degenerate => JustZero(sched.out)

\* what the code does keep: [0] when no audio array is loaded
C14_WithoutAudio == (Degenerate /\ sched.audio_array = NoAudio) => JustZero(sched.out)


=============================================================================
